---- MODULE Spec2Model ----
(***************************************************************************)
(* A state-machine model of jiwoncpark/extranet:                           *)
(*   - n2j/inference/inference_manager.py : InferenceManager, the cached   *)
(*     inference pipeline (k_bnn.npy, k_train.npy, k_val.npy, ...),        *)
(*   - exconvnet/des_data/processing_utils.py : compute_X / get_x_i /      *)
(*     gen_labels / ylabel, the sightline-to-catalog matching.             *)
(* Arrays are modelled by their shape and, per row of the example axis, by *)
(* the example whose data the code wrote into that row.                    *)
(***************************************************************************)
EXTENDS Integers, Sequences, FiniteSets, TLC

(***************************************************************************)
(* Bounds of the model.                                                    *)
(***************************************************************************)
MaxData == 3
MaxTrain == 2
MaxBatch == 2
MaxSamples == 2
MaxDropout == 1
MaxKills == 1
MaxSaves == 2
MaxIdx == 0
MaxRa == 1
MaxDec == 4
MaxMag == 2
MaxCat == 2
MaxSight == 2
MaxOmega == 2
MaxSteps == 2
MaxSeed == 2
MaxDraws == 3

(***************************************************************************)
(* Program constants.                                                      *)
(***************************************************************************)
\* target = ['final_kappa', 'final_gamma1', 'final_gamma2']
NumTargets == 3
\* THRESHOLD=0.0333333333 degrees.  Coordinates are counted in units of
\* 1/120 degree, so THRESHOLD is 3.999999996 units: a whole squared distance
\* is within THRESHOLD squared iff it is at most 15.
ThresholdSq == 15
\* y = np.mean(...) / 1000
LabelScale == 1000
\* rng = np.random.default_rng(123)
SubsampleSeed == 123

VARIABLES
    cfg,            \* the driver's configuration: the arguments of load_dataset
    attrs,          \* names of the attributes set on the InferenceManager
    Y_dim,          \* self.Y_dim
    train_loader,   \* self.train_loader
    val_dataset,    \* self.val_dataset (the examples, in dataset order)
    val_loader,     \* self.val_loader
    disk,           \* out_dir: file name -> content
    chain,          \* the MCMC chain artifact exists
    computed,       \* file name -> number of completed np.save calls
    arr,            \* the raw DES catalog given to compute_X
    sightlines,     \* the sightlines given to compute_X
    X,              \* what compute_X returned (or raised)
    Y,              \* what gen_labels returned (or raised)
    mcmc,           \* the MCMC run started by run_mcmc_for_omega_post
    rand,           \* the random generators of the process and what was drawn
    fetch           \* the call of fetch: its arguments, position and files

imVars == <<cfg, attrs, Y_dim, train_loader, val_dataset, val_loader,
            disk, chain, computed>>

matchVars == <<arr, sightlines, X, Y>>

\* what the InferenceManager's operations on the out_dir leave alone
otherVars == <<matchVars, mcmc, rand, fetch>>

vars == <<imVars, otherVars>>

(***************************************************************************)
(* Values.                                                                 *)
(***************************************************************************)
Min(a, b) == IF a < b THEN a ELSE b

Range(s) == {s[i] : i \in DOMAIN s}

\* a row of np.empty that no batch was written to
Uninit == 0
\* an index of a torch Subset that its dataset does not have
OOB == -1
\* the draw of an array that holds no random values
NoDraw == -1

Absent == [kind |-> "absent"]
Partial == [kind |-> "partial"]
NoValue == [kind |-> "none"]

Array(shape, rows, draw) ==
    [kind |-> "array", shape |-> shape, rows |-> rows, draw |-> draw]

IsArray(v) == v.kind = "array"

LogWeightsFile(idx) == IF idx = 0 THEN "log_weights_0.npy"
                       ELSE IF idx = 1 THEN "log_weights_1.npy"
                       ELSE "log_weights_2.npy"

CacheFiles == {"k_bnn.npy", "k_train.npy", "k_val.npy", "k_valorig.npy",
               "log_p_k_given_omega_int.npy", "subsample_idx.npy"}

Files == CacheFiles \cup {LogWeightsFile(i) : i \in 0..MaxIdx}

NoLoader == [data |-> <<>>, batch_size |-> 0, drop_last |-> FALSE]

Iota(n) == [i \in 1..n |-> i]

(***************************************************************************)
(* torch DataLoader: the batches of a loader, in loader order.             *)
(***************************************************************************)
NumBatches(loader) ==
    IF loader.drop_last
    THEN Len(loader.data) \div loader.batch_size
    ELSE (Len(loader.data) + loader.batch_size - 1) \div loader.batch_size

\* batch i (from 0) of the loader
Batch(loader, i) ==
    SubSeq(loader.data, i * loader.batch_size + 1,
           Min((i + 1) * loader.batch_size, Len(loader.data)))

(***************************************************************************)
(* The write loop shared by get_bnn_kappa and get_true_kappa:              *)
(*   for i, batch in enumerate(loader):                                    *)
(*       B = <this batch size>                                             *)
(*       out[i*B: (i+1)*B, ...] = <values of the batch>                    *)
(* A slice is clipped to the array; numpy raises ValueError unless the     *)
(* batch has as many rows as the slice or broadcasts (one row).            *)
(***************************************************************************)
WriteBatch(rows, i, batch) ==
    LET B == Len(batch)
        lo == Min(i * B, Len(rows))
        hi == Min((i + 1) * B, Len(rows))
    IN  IF OOB \in Range(batch)
        THEN [status |-> "IndexError", rows |-> rows]
        ELSE IF hi - lo = B
        THEN [status |-> "ok",
              rows |-> [r \in 1..Len(rows) |->
                          IF r > lo /\ r <= hi THEN batch[r - lo] ELSE rows[r]]]
        ELSE IF B = 1
        THEN [status |-> "ok", rows |-> rows]
        ELSE [status |-> "ValueError", rows |-> rows]

RECURSIVE FillFrom(_, _, _)
FillFrom(rows, loader, i) ==
    IF i >= NumBatches(loader)
    THEN [status |-> "ok", rows |-> rows]
    ELSE LET w == WriteBatch(rows, i, Batch(loader, i))
         IN  IF w.status # "ok" THEN w ELSE FillFrom(w.rows, loader, i + 1)

\* np.empty([n, ...]) filled by the loop
Fill(n, loader) == FillFrom([r \in 1..n |-> Uninit], loader, 0)

(***************************************************************************)
(* Outcomes of an operation on a world w = [disk, computed].  An array of   *)
(* random values (BNN samples, labels in shuffled order) is stamped with   *)
(* its draw: every computation draws anew, so the draw of file f is the    *)
(* number of computations of f before it.                                  *)
(***************************************************************************)
Fail(w, status) ==
    [status |-> status, value |-> NoValue, hit |-> FALSE, saved |-> "", w |-> w]

Draw(w, f) == w.computed[f]

\* np.load(path): a file that np.save did not finish does not parse
Load(w, f) ==
    IF w.disk[f] = Partial
    THEN [status |-> "LoadError", value |-> NoValue, hit |-> TRUE,
          saved |-> "", w |-> w]
    ELSE [status |-> "ok", value |-> w.disk[f], hit |-> TRUE,
          saved |-> "", w |-> w]

\* np.save(path, value), then return value
Save(w, f, value) ==
    [status |-> "ok", value |-> value, hit |-> FALSE, saved |-> f,
     w |-> [w EXCEPT !.disk[f] = value, !.computed[f] = @ + 1]]

Return(w, value) ==
    [status |-> "ok", value |-> value, hit |-> FALSE, saved |-> "", w |-> w]

\* a lookup that never finds the artifact
ExistsNever(w, f) == FALSE

\* os.path.exists(path)
Exists(w, f) == w.disk[f] # Absent

World == [disk |-> disk, computed |-> computed]

(***************************************************************************)
(* InferenceManager.get_true_kappa                                         *)
(***************************************************************************)
TrueKappaFile(is_train, add_suffix) ==
    IF is_train THEN "k_train.npy"
    ELSE IF add_suffix = "orig" THEN "k_valorig.npy" ELSE "k_val.npy"

TrueKappa(w, is_train, add_suffix, save) ==
    LET loaderName == IF is_train THEN "train_loader" ELSE "val_loader"
        loader == IF is_train THEN train_loader ELSE val_loader
        f == TrueKappaFile(is_train, add_suffix)
    IN  IF loaderName \notin attrs THEN Fail(w, "AttributeError")
        ELSE IF Exists(w, f) THEN Load(w, f)
        ELSE IF "Y_mean" \notin attrs \/ "val_dataset" \notin attrs
        THEN Fail(w, "AttributeError")
        ELSE LET n_test == Len(val_dataset)
                 filled == Fill(n_test, loader)
                 value == Array(<<n_test, Y_dim>>, filled.rows,
                                IF is_train THEN Draw(w, f) ELSE NoDraw)
             IN  IF filled.status # "ok" THEN Fail(w, filled.status)
                 ELSE IF save THEN Save(w, f, value)
                 ELSE Return(w, value)

(***************************************************************************)
(* InferenceManager.get_bnn_kappa                                          *)
(***************************************************************************)
\* the sample axes swapped with the target axis
BnnShapeSwapped(n_test, n_samples, n_mc_dropout) ==
    <<n_test, n_samples * n_mc_dropout, Y_dim>>

\* samples.transpose(0, 3, 1, 2).reshape([n_test, self.Y_dim, -1]) of an
\* array of shape [n_test, n_mc_dropout, n_samples, Y_dim]
BnnShape(n_test, n_samples, n_mc_dropout) ==
    <<n_test, Y_dim, n_samples * n_mc_dropout>>

\* the position on the last axis of the returned tensor where
\* transpose(0, 3, 1, 2) and reshape([n_test, Y_dim, -1]) (row-major) put
\* the draw s of repeat r: the axes [n_mc_dropout, n_samples] merged
MergedIndex(r, s, n_samples) == r * n_samples + s

\* what the tensor v holds at [e, t, k] (indices from 0): the draw of an
\* example, for a target, of a repeat and a sample in it
BnnElement(v, e, t, k, n_samples) ==
    [example |-> v.rows[e + 1], target |-> t,
     repeat |-> k \div n_samples, sample |-> k % n_samples]

\* a get_bnn_kappa that returns the samples without saving them
BnnKappaUnsaved(w, n_samples, n_mc_dropout) ==
    LET f == "k_bnn.npy"
    IN  IF Exists(w, f) THEN Load(w, f)
        ELSE IF {"Y_mean", "val_dataset", "model", "val_loader"} \subseteq attrs
        THEN LET n_test == Len(val_dataset)
                 filled == Fill(n_test, val_loader)
                 value == Array(BnnShape(n_test, n_samples, n_mc_dropout),
                                filled.rows, Draw(w, f))
             IN  IF filled.status # "ok" THEN Fail(w, filled.status)
                 ELSE Return(w, value)
        ELSE Fail(w, "AttributeError")

BnnKappa(w, n_samples, n_mc_dropout) ==
    LET f == "k_bnn.npy"
    IN  IF Exists(w, f) THEN Load(w, f)
        ELSE IF {"Y_mean", "val_dataset", "model", "val_loader"} \subseteq attrs
        THEN LET n_test == Len(val_dataset)
                 filled == Fill(n_test, val_loader)
                 value == Array(BnnShape(n_test, n_samples, n_mc_dropout),
                                filled.rows, Draw(w, f))
             IN  IF filled.status # "ok" THEN Fail(w, filled.status)
                 ELSE Save(w, f, value)
        ELSE Fail(w, "AttributeError")

(***************************************************************************)
(* A call leaves the world of its outcome: the files it saved before it    *)
(* returned or raised.  What it returned is out.value.                     *)
(***************************************************************************)
Finish(out) ==
    /\ disk' = out.w.disk
    /\ computed' = out.w.computed

(***************************************************************************)
(* InferenceManager.__init__ on the out_dir: a manager with no dataset,    *)
(* loader or model yet.                                                    *)
(***************************************************************************)
Configs == [batch_size : 1..MaxBatch,
            sub_target : {0, 1, NumTargets},
            sub_target_local : BOOLEAN,
            n_train : 1..MaxTrain,
            n_val : 1..MaxData]

FreshManager ==
    /\ attrs' = {}
    /\ Y_dim' = 0
    /\ train_loader' = NoLoader
    /\ val_dataset' = <<>>
    /\ val_loader' = NoLoader

NotRun == [status |-> "none", value |-> <<>>]

MatchIdle ==
    /\ arr = <<>>
    /\ sightlines = <<>>
    /\ X = NotRun
    /\ Y = NotRun

McmcIdle == [pc |-> "idle"]

RandIdle == [pc |-> "idle"]

FetchIdle == [pc |-> "idle"]

Init ==
    /\ MatchIdle
    /\ mcmc = McmcIdle
    /\ rand = RandIdle
    /\ fetch = FetchIdle
    /\ cfg \in Configs
    /\ attrs = {}
    /\ Y_dim = 0
    /\ train_loader = NoLoader
    /\ val_dataset = <<>>
    /\ val_loader = NoLoader
    /\ disk = [f \in Files |-> Absent]
    /\ chain = FALSE
    /\ computed = [f \in Files |-> 0]

Construct ==
    /\ FreshManager
    /\ UNCHANGED <<otherVars, cfg, disk, chain, computed>>

(***************************************************************************)
(* InferenceManager.load_dataset.  An attribute read before it was ever    *)
(* set raises AttributeError and leaves the assignments made so far.       *)
(***************************************************************************)
LoadDatasetTrain ==
    LET a1 == attrs \cup {"X_mean", "transform_X"}
        okY == cfg.sub_target # 0 \/ "Y_mean" \in attrs
        a2 == IF cfg.sub_target # 0
              THEN a1 \cup {"Y_mean", "transform_Y"}
              ELSE a1 \cup {"transform_Y"}
        okL == cfg.sub_target_local \/ "Y_local_mean" \in attrs
        a3 == IF cfg.sub_target_local
              THEN a2 \cup {"Y_local_mean", "transform_Y_local"}
              ELSE a2 \cup {"transform_Y_local"}
        done == okY /\ okL
    IN  /\ Y_dim' = IF cfg.sub_target # 0 THEN cfg.sub_target ELSE NumTargets
        /\ attrs' = IF ~okY THEN a1
                    ELSE IF ~okL THEN a2
                    ELSE a3 \cup {"class_weight", "train_loader"}
        /\ train_loader' = IF done
                           THEN [data |-> Iota(cfg.n_train),
                                 batch_size |-> cfg.batch_size,
                                 drop_last |-> TRUE]
                           ELSE train_loader
        /\ UNCHANGED <<otherVars, cfg, val_dataset, val_loader, disk, chain,
                       computed>>

LoadDatasetVal ==
    LET done == {"transform_X", "transform_Y", "transform_Y_local"}
                    \subseteq attrs
    IN  /\ Y_dim' = IF cfg.sub_target # 0 THEN cfg.sub_target ELSE NumTargets
        /\ val_dataset' = Iota(cfg.n_val)
        /\ attrs' = IF done THEN attrs \cup {"val_dataset", "val_loader"}
                    ELSE attrs \cup {"val_dataset"}
        /\ val_loader' = IF done
                         THEN [data |-> Iota(cfg.n_val),
                               batch_size |-> cfg.batch_size,
                               drop_last |-> TRUE]
                         ELSE val_loader
        /\ UNCHANGED <<otherVars, cfg, train_loader, disk, chain, computed>>

load_dataset ==
    \E is_train \in BOOLEAN :
        IF is_train THEN LoadDatasetTrain ELSE LoadDatasetVal

(***************************************************************************)
(* InferenceManager.configure_model                                        *)
(***************************************************************************)
configure_model ==
    /\ attrs' = attrs \cup {"model"}
    /\ UNCHANGED <<otherVars, cfg, Y_dim, train_loader, val_dataset, val_loader,
                   disk, chain, computed>>

(***************************************************************************)
(* The calls of the get-or-compute operations.                             *)
(***************************************************************************)
get_true_kappa ==
    \E is_train \in BOOLEAN, save \in BOOLEAN :
        /\ Finish(TrueKappa(World, is_train, "", save))
        /\ UNCHANGED <<otherVars, cfg, attrs, Y_dim, train_loader, val_dataset,
                       val_loader, chain>>

get_bnn_kappa ==
    \E n_samples \in 1..MaxSamples, n_mc_dropout \in 1..MaxDropout :
        /\ Finish(BnnKappa(World, n_samples, n_mc_dropout))
        /\ UNCHANGED <<otherVars, cfg, attrs, Y_dim, train_loader, val_dataset,
                       val_loader, chain>>

(***************************************************************************)
(* numpy squeeze: every axis of length 1 is removed.                       *)
(***************************************************************************)
Squeeze(shape) == SelectSeq(shape, LAMBDA d : d # 1)

(***************************************************************************)
(* n2j.inference.infer_utils (not part of the sources at hand):            *)
(*   get_log_p_k_given_omega_int(k_train, k_bnn) evaluates the log density *)
(*   ratio at every sample value of k_bnn, so the result has the shape and *)
(*   the examples of the k_bnn it is given;                                *)
(*   get_kappa_log_weights gives one log weight per sample of the example. *)
(***************************************************************************)
iutils_get_log_p_k_given_omega_int(k_train_shape, k_bnn) ==
    Array(Squeeze(k_bnn.shape), k_bnn.rows, k_bnn.draw)

iutils_get_kappa_log_weights(k_bnn, idx) ==
    Array(<<k_bnn.shape[Len(k_bnn.shape)]>>, <<k_bnn.rows[idx + 1]>>,
          k_bnn.draw)

(***************************************************************************)
(* InferenceManager.get_log_p_k_given_omega_int                            *)
(***************************************************************************)
LogP(w, n_samples, n_mc_dropout) ==
    LET f == "log_p_k_given_omega_int.npy"
    IN  IF Exists(w, f) THEN Load(w, f)
        ELSE LET k_train == TrueKappa(w, TRUE, "", TRUE)
             IN  IF k_train.status # "ok" THEN Fail(k_train.w, k_train.status)
                 ELSE LET k_bnn == BnnKappa(k_train.w, n_samples, n_mc_dropout)
                      IN  IF k_bnn.status # "ok"
                          THEN Fail(k_bnn.w, k_bnn.status)
                          ELSE Save(k_bnn.w, f,
                                    iutils_get_log_p_k_given_omega_int(
                                        Squeeze(k_train.value.shape),
                                        k_bnn.value))

(***************************************************************************)
(* InferenceManager.run_mcmc_for_omega_post: the chain is written by       *)
(* iutils.get_omega_post once both inputs are there.                       *)
(***************************************************************************)
RunMcmc(w, n_samples, n_mc_dropout) ==
    LET k_bnn == BnnKappa(w, n_samples, n_mc_dropout)
    IN  IF k_bnn.status # "ok" THEN Fail(k_bnn.w, k_bnn.status)
        ELSE LET log_p == LogP(k_bnn.w, n_samples, n_mc_dropout)
             IN  IF log_p.status # "ok" THEN Fail(log_p.w, log_p.status)
                 ELSE Return(log_p.w, NoValue)

(***************************************************************************)
(* InferenceManager.get_kappa_log_weights: path is computed and never      *)
(* looked up; every call reads the chain, computes and saves.              *)
(***************************************************************************)
KappaLogWeights(w, idx, n_samples, n_mc_dropout) ==
    LET k_bnn == BnnKappa(w, n_samples, n_mc_dropout)
    IN  IF k_bnn.status # "ok" THEN Fail(k_bnn.w, k_bnn.status)
        ELSE LET log_p == LogP(k_bnn.w, n_samples, n_mc_dropout)
             IN  IF log_p.status # "ok" THEN Fail(log_p.w, log_p.status)
                 ELSE IF ~chain THEN Fail(log_p.w, "IOError")
                 ELSE IF idx >= k_bnn.value.shape[1]
                 THEN Fail(log_p.w, "IndexError")
                 ELSE IF Len(log_p.value.shape) < 2
                         \/ idx >= log_p.value.shape[1]
                 THEN Fail(log_p.w, "IndexError")
                 ELSE Save(log_p.w, LogWeightsFile(idx),
                           iutils_get_kappa_log_weights(k_bnn.value, idx))

(***************************************************************************)
(* InferenceManager.reset_val_dataset.  rng.choice draws n_val distinct    *)
(* indices with probabilities that depend on the labels; which ones is     *)
(* left open, and so is its ValueError for probabilities it refuses.       *)
(***************************************************************************)
InjSeqs(m, k) ==
    {q \in [1..k -> 0..(m - 1)] : \A i, j \in 1..k : i # j => q[i] # q[j]}

IdxList(idx) == [kind |-> "idx", idx |-> idx]

\* torch.utils.data.Subset(dataset, indices), read eagerly
Subset(dataset, idx) ==
    [i \in 1..Len(idx) |->
        IF idx[i] + 1 <= Len(dataset) THEN dataset[idx[i] + 1] ELSE OOB]

\* the outcomes of the part up to the subsample indices
SubsampleIdx(w, n_val) ==
    LET f == "subsample_idx.npy"
        y_val == TrueKappa(w, FALSE, "orig", TRUE)
        shape == Squeeze(y_val.value.shape)
    IN  IF y_val.status # "ok" THEN {Fail(y_val.w, y_val.status)}
        ELSE IF Exists(y_val.w, f) THEN {Load(y_val.w, f)}
        ELSE IF Len(shape) = 0 THEN {Fail(y_val.w, "TypeError")}
        ELSE IF Len(shape) > 1 THEN {Fail(y_val.w, "ValueError")}
        ELSE {Fail(y_val.w, "ValueError")}
             \cup {Save(y_val.w, f, IdxList(q)) : q \in InjSeqs(shape[1], n_val)}

(***************************************************************************)
(* The calls.                                                              *)
(***************************************************************************)
get_log_p_k_given_omega_int ==
    \E n_samples \in 1..MaxSamples, n_mc_dropout \in 1..MaxDropout :
        /\ Finish(LogP(World, n_samples, n_mc_dropout))
        /\ UNCHANGED <<otherVars, cfg, attrs, Y_dim, train_loader, val_dataset,
                       val_loader, chain>>

run_mcmc_for_omega_post ==
    \E n_samples \in 1..MaxSamples, n_mc_dropout \in 1..MaxDropout :
        LET out == RunMcmc(World, n_samples, n_mc_dropout)
        IN  /\ Finish(out)
            /\ chain' = (chain \/ out.status = "ok")
            /\ UNCHANGED <<otherVars, cfg, attrs, Y_dim, train_loader, val_dataset,
                           val_loader>>

get_kappa_log_weights ==
    \E idx \in 0..MaxIdx,
       n_samples \in 1..MaxSamples, n_mc_dropout \in 1..MaxDropout :
        /\ computed[LogWeightsFile(idx)] < MaxSaves
        /\ Finish(KappaLogWeights(World, idx, n_samples, n_mc_dropout))
        /\ UNCHANGED <<otherVars, cfg, attrs, Y_dim, train_loader, val_dataset,
                       val_loader, chain>>

reset_val_dataset ==
    \E n_val \in 1..MaxData :
        \E out \in SubsampleIdx(World, n_val) :
            /\ Finish(out)
            /\ val_dataset' = IF out.status = "ok"
                              THEN Subset(val_dataset, out.value.idx)
                              ELSE val_dataset
            /\ val_loader' = IF out.status = "ok"
                             THEN [data |-> Subset(val_dataset, out.value.idx),
                                   batch_size |-> cfg.batch_size,
                                   drop_last |-> FALSE]
                             ELSE val_loader
            /\ UNCHANGED <<otherVars, cfg, attrs, Y_dim, train_loader, chain>>

(***************************************************************************)
(* The process is killed while np.save writes the file of an operation:    *)
(* np.save writes in place, so the file stays, unfinished.  The next run   *)
(* constructs a new manager on the same out_dir.                           *)
(***************************************************************************)
Killed(out) ==
    /\ Cardinality({f \in Files : disk[f] = Partial}) < MaxKills
    /\ out.status = "ok"
    /\ out.saved # ""
    /\ disk' = [out.w.disk EXCEPT ![out.saved] = Partial]
    /\ computed' = [out.w.computed EXCEPT ![out.saved] = @ - 1]
    /\ FreshManager
    /\ UNCHANGED <<otherVars, cfg, chain>>

Interrupt ==
    \/ \E n_samples \in 1..MaxSamples, n_mc_dropout \in 1..MaxDropout :
           Killed(BnnKappa(World, n_samples, n_mc_dropout))
    \/ \E is_train \in BOOLEAN :
           Killed(TrueKappa(World, is_train, "", TRUE))
    \/ \E n_samples \in 1..MaxSamples, n_mc_dropout \in 1..MaxDropout :
           Killed(LogP(World, n_samples, n_mc_dropout))
    \/ \E n_val \in 1..MaxData :
           \E out \in SubsampleIdx(World, n_val) : Killed(out)
    \/ \E idx \in 0..MaxIdx,
          n_samples \in 1..MaxSamples, n_mc_dropout \in 1..MaxDropout :
           Killed(KappaLogWeights(World, idx, n_samples, n_mc_dropout))

Next ==
    \/ Construct
    \/ load_dataset
    \/ configure_model
    \/ reset_val_dataset
    \/ get_true_kappa
    \/ get_bnn_kappa
    \/ get_log_p_k_given_omega_int
    \/ run_mcmc_for_omega_post
    \/ get_kappa_log_weights
    \/ Interrupt

Spec == Init /\ [][Next]_vars

(***************************************************************************)
(* Properties of the InferenceManager, over the calls that can be made in  *)
(* a state: BnnKappa(World, ...), TrueKappa(World, ...) and LogP(World,    *)
(* ...) are what a call made now does and returns.                         *)
(***************************************************************************)
SampleArgs == (1..MaxSamples) \X (1..MaxDropout)

\* a second call, made right after the call with outcome o1, repeats it:
\* same array, nothing computed, nothing saved
Repeats(o1, o2) ==
    o1.status = "ok" =>
        /\ o2.status = "ok"
        /\ o2.hit
        /\ o2.value = o1.value
        /\ o2.w = o1.w

GetOrComputeFiles ==
    {"k_bnn.npy", "k_train.npy", "k_val.npy", "log_p_k_given_omega_int.npy"}

TwiceIsOnce ==
    /\ \A a \in SampleArgs :
           LET o1 == BnnKappa(World, a[1], a[2])
           IN  Repeats(o1, BnnKappa(o1.w, a[1], a[2]))
    /\ \A is_train \in BOOLEAN :
           LET o1 == TrueKappa(World, is_train, "", TRUE)
           IN  Repeats(o1, TrueKappa(o1.w, is_train, "", TRUE))
    /\ \A a \in SampleArgs :
           LET o1 == LogP(World, a[1], a[2])
           IN  Repeats(o1, LogP(o1.w, a[1], a[2]))
    /\ \A f \in GetOrComputeFiles : computed[f] <= 1

ArtifactKept ==
    \A f \in GetOrComputeFiles : IsArray(disk[f]) => disk'[f] = disk[f]

\* C1: for get_bnn_kappa, get_true_kappa(save=True) and
\* get_log_p_k_given_omega_int, a call and its repetition with the same
\* out_dir and file name return the same array and the second computes
\* nothing; over any sequence of calls the artifact is computed at most once
\* and, once it is there, never rewritten.
C1_GetOrComputeIdempotent == [](TwiceIsOnce) /\ [][ArtifactKept]_vars

\* all three artifacts were computed once and every call is now a hit
C1_AllCachedOnce ==
    /\ \A f \in {"k_bnn.npy", "k_train.npy", "log_p_k_given_omega_int.npy"} :
           IsArray(disk[f]) /\ computed[f] = 1
    /\ BnnKappa(World, 1, 1).hit
    /\ TrueKappa(World, TRUE, "", TRUE).hit
    /\ LogP(World, 1, 1).hit

\* C2 as stated: over any sequence of get_kappa_log_weights calls with the
\* same idx and out_dir, log_weights_{idx}.npy is written exactly once.
C2_LogWeightsWrittenOnce ==
    \A idx \in 0..MaxIdx : computed[LogWeightsFile(idx)] <= 1

\* C3 as stated: after an interruption, no call of a get-or-compute
\* operation takes a partially written file as a cache hit (np.load of it
\* fails); the restarted call completes.
C3_PartialNeverHit ==
    /\ \A a \in SampleArgs :
           /\ BnnKappa(World, a[1], a[2]).status # "LoadError"
           /\ LogP(World, a[1], a[2]).status # "LoadError"
    /\ \A is_train \in BOOLEAN :
           TrueKappa(World, is_train, "", TRUE).status # "LoadError"
    /\ \A n_val \in 1..MaxData :
           \A o \in SubsampleIdx(World, n_val) : o.status # "LoadError"

\* C7 as stated: on a cache miss, row j of the tensor get_bnn_kappa returns
\* holds the j-th example of the validation dataset, for every dataset size
\* and batch size, with drop_last True or False.
C7_RowsAreExamples ==
    \A a \in SampleArgs :
        LET o == BnnKappa(World, a[1], a[2])
        IN  (o.status = "ok" /\ ~o.hit) => o.value.rows = val_dataset

\* C8 as stated: the arrays that get_bnn_kappa and
\* get_true_kappa(is_train=False) return have the same number of examples
\* and the same example at each row.
C8_ExampleAxisAligned ==
    \A a \in SampleArgs, save \in BOOLEAN :
        LET b == BnnKappa(World, a[1], a[2])
            t == TrueKappa(World, FALSE, "", save)
        IN  (b.status = "ok" /\ t.status = "ok") =>
                b.value.rows = t.value.rows

\* the examples a loader yields
Yielded(loader) ==
    IF loader.drop_last
    THEN NumBatches(loader) * loader.batch_size
    ELSE Len(loader.data)

\* C9 as stated: a get_true_kappa that computes returns an array of shape
\* [n_examples, n_targets], n_examples the number of examples yielded by the
\* loader it reads (training loader if is_train, else validation loader),
\* for any sizes of the two datasets.
C9_TrueKappaShape ==
    \A is_train \in BOOLEAN, save \in BOOLEAN :
        LET o == TrueKappa(World, is_train, "", save)
            loader == IF is_train THEN train_loader ELSE val_loader
        IN  (o.status \in {"ok", "ValueError"} /\ ~o.hit) =>
                /\ o.status = "ok"
                /\ o.value.shape = <<Yielded(loader), Y_dim>>

Abs(a) == IF a < 0 THEN 0 - a ELSE a

Positions == [ra : 0..MaxRa, dec : 0..MaxDec]

Objects == [ra : 0..MaxRa, dec : 0..MaxDec, mag : 1..MaxMag]

SeqsUpTo(S, n) == UNION {[1..k -> S] : k \in 0..n}

\* squared Euclidean distance between an object's (ra, dec) and a sightline
Dist2(x, sightline) ==
    (x.ra - sightline.ra) * (x.ra - sightline.ra)
    + (x.dec - sightline.dec) * (x.dec - sightline.dec)

\* KDTree.query_ball_point(sightline, THRESHOLD): the indices (from 1) of the
\* points within THRESHOLD; a single-point query returns them unsorted
query_ball_point(coords, sightline) ==
    {j \in DOMAIN coords : Dist2(coords[j], sightline) <= ThresholdSq}

strip2RAdec(a) == [j \in DOMAIN a |-> [ra |-> a[j].ra, dec |-> a[j].dec]]

Orders(S) ==
    {q \in [1..Cardinality(S) -> S] :
        \A i, j \in 1..Cardinality(S) : i # j => q[i] # q[j]}

\* the key of sorted(): np.array(x[1] - sightline[0], x[2] - sightline[1])
\* passes the dec difference as the dtype argument (a numpy float scalar
\* stands for its dtype), so the norm is taken of the ra difference alone
SortKey(x, sightline) == Abs(x.ra - sightline.ra)

\* sorted(seq, key=...): stable
Sorted(seq, sightline) ==
    LET rank(j) == Cardinality({k \in DOMAIN seq :
                       \/ SortKey(seq[k], sightline) < SortKey(seq[j], sightline)
                       \/ /\ SortKey(seq[k], sightline) = SortKey(seq[j], sightline)
                          /\ k < j}) + 1
    IN  [r \in DOMAIN seq |-> seq[CHOOSE j \in DOMAIN seq : rank(j) = r]]

\* the arrays get_x_i may return, one for each order of the query result
get_x_i(sightline, a) ==
    {Sorted([i \in DOMAIN q |-> a[q[i]]], sightline) :
        q \in Orders(query_ball_point(strip2RAdec(a), sightline))}

\* KDTree(coords) takes an (n, 2) array; strip2RAdec of an empty catalog has
\* shape (0,) and the constructor raises
ComputeXOutcomes(a, lines) ==
    IF Len(a) = 0
    THEN {[status |-> "ValueError", value |-> <<>>]}
    ELSE {[status |-> "ok", value |-> v] :
            v \in {f \in [DOMAIN lines ->
                            UNION {get_x_i(lines[i], a) : i \in DOMAIN lines}] :
                     \A i \in DOMAIN lines : f[i] \in get_x_i(lines[i], a)}}

NaN == [nan |-> TRUE, num |-> 0, den |-> 1]

RECURSIVE SumMag(_)
SumMag(x) == IF Len(x) = 0 THEN 0 ELSE x[1].mag + SumMag(Tail(x))

\* np.mean of an empty list is nan (with a RuntimeWarning), nan / 1000 is nan;
\* otherwise the label is the fraction SumMag / (Len * 1000)
ylabel(x) ==
    IF Len(x) = 0 THEN NaN
    ELSE [nan |-> FALSE, num |-> SumMag(x), den |-> Len(x) * LabelScale]

gen_labels(Xs) == [status |-> "ok", value |-> [i \in DOMAIN Xs |-> ylabel(Xs[i])]]

\* no InferenceManager at work
ManagerIdle ==
    /\ cfg = CHOOSE c \in Configs : TRUE
    /\ attrs = {}
    /\ Y_dim = 0
    /\ train_loader = NoLoader
    /\ val_dataset = <<>>
    /\ val_loader = NoLoader
    /\ disk = [f \in Files |-> Absent]
    /\ chain = FALSE
    /\ computed = [f \in Files |-> 0]

InitMatch ==
    /\ mcmc = McmcIdle
    /\ rand = RandIdle
    /\ fetch = FetchIdle
    /\ arr \in SeqsUpTo(Objects, MaxCat)
    /\ sightlines \in SeqsUpTo(Positions, MaxSight)
    /\ X = NotRun
    /\ Y = NotRun
    /\ ManagerIdle

compute_X ==
    /\ X = NotRun
    /\ X' \in ComputeXOutcomes(arr, sightlines)
    /\ UNCHANGED <<arr, sightlines, Y, imVars, mcmc, rand, fetch>>

GenLabels ==
    /\ X.status = "ok"
    /\ Y = NotRun
    /\ Y' = gen_labels(X.value)
    /\ UNCHANGED <<arr, sightlines, X, imVars, mcmc, rand, fetch>>

NextMatch ==
    \/ compute_X
    \/ GenLabels

SpecMatch == InitMatch /\ [][NextMatch]_vars

(***************************************************************************)
(* Properties of the matching and of the labels.                           *)
(***************************************************************************)
\* C4 as stated: every matched set is in non-decreasing order of the
\* Euclidean distance to its sightline, holds only objects within
\* THRESHOLD, and so has an object at the sightline's position first.
C4_OrderedByDistance ==
    X.status = "ok" =>
        \A i \in DOMAIN X.value :
            LET x == X.value[i]
            IN  /\ \A j \in DOMAIN x : Dist2(x[j], sightlines[i]) <= ThresholdSq
                /\ \A j, k \in DOMAIN x :
                       j < k => Dist2(x[j], sightlines[i])
                                    <= Dist2(x[k], sightlines[i])

\* C5 as stated: compute_X returns one matched set per sightline, at the
\* sightline's position, and a sightline with no object within the radius
\* gets an empty set: it is not dropped and nothing is raised.
C5_OneSetPerSightline ==
    (X # NotRun /\ Len(sightlines) > 0) =>
        /\ X.status = "ok"
        /\ DOMAIN X.value = DOMAIN sightlines
        /\ \A i \in DOMAIN sightlines :
               Len(X.value[i]) =
                   Cardinality(query_ball_point(strip2RAdec(arr), sightlines[i]))

\* C6 as stated: gen_labels over a training set with an empty matched set
\* raises EmptyExampleError; no label is stored for the empty set.
C6_EmptyExampleRaises ==
    (Y # NotRun /\ \E i \in DOMAIN X.value : Len(X.value[i]) = 0) =>
        Y.status = "EmptyExampleError"

(***************************************************************************)
(* n2j.inference.infer_utils.get_omega_post (not part of the sources at    *)
(* hand), the hyperparameter sampler that run_mcmc_for_omega_post starts   *)
(* with its bounds_lower and bounds_upper: initialize the chain within the *)
(* bounds, then propose, evaluate the log-posterior (log-likelihood plus   *)
(* log-prior, minus infinity outside the bounds), accept or reject, and    *)
(* after the configured number of steps discard the burn-in.               *)
(***************************************************************************)
Omegas == [mu : 0..MaxOmega, sigma : 0..MaxOmega]

\* bounds_lower=-np.inf and bounds_upper=np.inf are the defaults: a number
\* below, and one above, every hyperparameter value
DefaultLower == 0 - 1

DefaultUpper == MaxOmega + 1

BoundsSet ==
    {b \in [lower : DefaultLower..MaxOmega, upper : 0..DefaultUpper] :
        b.lower <= b.upper}

WithinBounds(omega, b) ==
    /\ b.lower <= omega.mu /\ omega.mu <= b.upper
    /\ b.lower <= omega.sigma /\ omega.sigma <= b.upper

\* a log-prior that forgets the bounds
LogPriorUnbounded(omega, b) == "finite"

\* log-prior(omega, bounds): minus infinity outside [lower, upper]
LogPrior(omega, b) == IF WithinBounds(omega, b) THEN "finite" ELSE "-inf"

\* log-likelihood + log-prior
LogPosterior(omega, b) == LogPrior(omega, b)

InitMcmc ==
    /\ mcmc = McmcIdle
    /\ rand = RandIdle
    /\ fetch = FetchIdle
    /\ MatchIdle
    /\ ManagerIdle

McmcStart ==
    /\ mcmc.pc = "idle"
    /\ \E b \in BoundsSet, start \in Omegas :
           /\ WithinBounds(start, b)
           /\ mcmc' = [pc |-> "run", bounds |-> b, omega |-> start,
                       states |-> <<>>]
    /\ UNCHANGED <<imVars, matchVars, rand, fetch>>

\* one step: the Metropolis criterion accepts a proposal of finite
\* log-posterior or not (accept), and never one of minus infinity
McmcStep ==
    /\ mcmc.pc = "run"
    /\ Len(mcmc.states) < MaxSteps
    /\ \E proposal \in Omegas, accept \in BOOLEAN :
           LET next == IF LogPosterior(proposal, mcmc.bounds) = "finite" /\ accept
                       THEN proposal ELSE mcmc.omega
           IN  mcmc' = [mcmc EXCEPT !.omega = next,
                                    !.states = Append(@, next)]
    /\ UNCHANGED <<imVars, matchVars, rand, fetch>>

\* the samples returned: the chain without its first burn states
McmcReturn ==
    /\ mcmc.pc = "run"
    /\ \E burn \in 0..Len(mcmc.states) :
           mcmc' = [pc |-> "done", bounds |-> mcmc.bounds, omega |-> mcmc.omega,
                    states |-> SubSeq(mcmc.states, burn + 1, Len(mcmc.states))]
    /\ UNCHANGED <<imVars, matchVars, rand, fetch>>

NextMcmc ==
    \/ McmcStart
    \/ McmcStep
    \/ McmcReturn

SpecMcmc == InitMcmc /\ [][NextMcmc]_vars

\* C11: the sampler never keeps or returns a hyperparameter vector outside
\* [bounds_lower, bounds_upper]: the current state and every retained state
\* of the chain, after any number of steps and in the returned samples, lie
\* within the bounds.
C11_ChainWithinBounds ==
    mcmc.pc # "idle" =>
        /\ WithinBounds(mcmc.omega, mcmc.bounds)
        /\ \A i \in DOMAIN mcmc.states : WithinBounds(mcmc.states[i], mcmc.bounds)

\* samples were returned after a step on which the chain moved, under bounds
\* that exclude some hyperparameter vector
C11_ReturnedAfterMove ==
    /\ mcmc.pc = "done"
    /\ Len(mcmc.states) = MaxSteps
    /\ mcmc.states[1] # mcmc.states[MaxSteps]
    /\ \E omega \in Omegas : ~WithinBounds(omega, mcmc.bounds)

(***************************************************************************)
(* Further properties of the InferenceManager.                             *)
(***************************************************************************)
\* the length of the example axis of an array (0 when it has no axis)
ExampleCount(v) == IF Len(v.shape) = 0 THEN 0 ELSE v.shape[1]

\* C12 as stated: get_log_p_k_given_omega_int, run_mcmc_for_omega_post and
\* get_kappa_log_weights raise, and produce nothing, when the example axes
\* of the arrays they combine (k_train with k_bnn, k_bnn with
\* log_p_k_given_omega_int) have different lengths.
C12_MismatchFailsFast ==
    \A a \in SampleArgs :
        /\ LET k_train == TrueKappa(World, TRUE, "", TRUE)
               k_bnn == BnnKappa(k_train.w, a[1], a[2])
           IN  (/\ ~Exists(World, "log_p_k_given_omega_int.npy")
                /\ k_train.status = "ok"
                /\ k_bnn.status = "ok"
                /\ ExampleCount(k_train.value) # ExampleCount(k_bnn.value))
                   => LogP(World, a[1], a[2]).status # "ok"
        /\ LET k_bnn == BnnKappa(World, a[1], a[2])
               log_p == LogP(k_bnn.w, a[1], a[2])
           IN  (/\ k_bnn.status = "ok"
                /\ log_p.status = "ok"
                /\ ExampleCount(k_bnn.value) # ExampleCount(log_p.value))
                   => /\ RunMcmc(World, a[1], a[2]).status # "ok"
                      /\ \A idx \in 0..MaxIdx :
                             KappaLogWeights(World, idx, a[1], a[2]).status # "ok"

(***************************************************************************)
(* The random generators of a process.  InferenceManager.__init__ calls    *)
(* seed_everything, which seeds the process-wide generators of numpy,      *)
(* random and torch; every draw from the process-wide torch generator      *)
(* moves it on.  A stream of random values is named by its generator's     *)
(* seed and by the position in the generator's sequence where it starts.   *)
(***************************************************************************)
Stream(seed, start) == [seed |-> seed, start |-> start]

NoStream == [seed |-> 0 - 1, start |-> 0 - 1]

InitSeed ==
    /\ rand = RandIdle
    /\ mcmc = McmcIdle
    /\ fetch = FetchIdle
    /\ MatchIdle
    /\ ManagerIdle

\* a process starts: InferenceManager(..., seed) seeds the process-wide
\* generators; what earlier processes computed stays on record
seed_everything ==
    /\ \E seed \in 0..MaxSeed :
           rand' = [pc |-> "run", seed |-> seed, global |-> 0,
                    samples |-> IF rand.pc = "idle" THEN NoStream
                                ELSE rand.samples,
                    subsample_idx |-> IF rand.pc = "idle" THEN NoStream
                                      ELSE rand.subsample_idx]
    /\ UNCHANGED <<imVars, matchVars, mcmc, fetch>>

\* another stochastic operation runs: iterating the train loader
\* (DataLoader(shuffle=True), no generator given) in get_true_kappa draws
\* the order from the process-wide torch generator
ShuffledPass ==
    /\ rand.pc = "run"
    /\ rand.global < MaxDraws
    /\ rand' = [rand EXCEPT !.global = @ + 1]
    /\ UNCHANGED <<imVars, matchVars, mcmc, fetch>>

\* get_bnn_kappa on a cache miss: self.model(batch) and
\* self.model.global_nll.sample(Y_mean, Y_std, n_samples) are given no
\* generator and draw from the process-wide torch generator
SampleBnn ==
    /\ rand.pc = "run"
    /\ rand.global < MaxDraws
    /\ rand' = [rand EXCEPT !.samples = Stream(rand.seed, rand.global),
                            !.global = @ + 1]
    /\ UNCHANGED <<imVars, matchVars, mcmc, fetch>>

\* reset_val_dataset on a cache miss: rng = np.random.default_rng(123),
\* then rng.choice(...)
Subsample ==
    /\ rand.pc = "run"
    /\ rand' = [rand EXCEPT !.subsample_idx = Stream(SubsampleSeed, 0)]
    /\ UNCHANGED <<imVars, matchVars, mcmc, fetch>>

NextSeed ==
    \/ seed_everything
    \/ ShuffledPass
    \/ SampleBnn
    \/ Subsample

SpecSeed == InitSeed /\ [][NextSeed]_vars

\* C13 as stated: what get_bnn_kappa and reset_val_dataset compute on a
\* cache miss is drawn from a generator of their own: for a given seed it is
\* the stream that starts at the generator's seeded state, whatever other
\* stochastic operations ran before in the process.
C13_OwnSeededGenerator ==
    rand.pc = "run" =>
        /\ rand.samples # NoStream => rand.samples.start = 0
        /\ rand.subsample_idx # NoStream => rand.subsample_idx.start = 0

\* C14 as stated: when the cache file of an artifact does not parse, the
\* operation of that artifact (get_bnn_kappa, get_log_p_k_given_omega_int,
\* get_kappa_log_weights) raises, and leaves the file as it is: the file is
\* neither ignored nor recomputed and overwritten.
C14_CorruptCacheFatal ==
    \A a \in SampleArgs :
        /\ disk["k_bnn.npy"] = Partial =>
               LET o == BnnKappa(World, a[1], a[2])
               IN  o.status = "LoadError" /\ o.w.disk = disk
        /\ disk["log_p_k_given_omega_int.npy"] = Partial =>
               LET o == LogP(World, a[1], a[2])
               IN  o.status = "LoadError" /\ o.w.disk = disk
        /\ \A idx \in 0..MaxIdx :
               disk[LogWeightsFile(idx)] = Partial =>
                   LET o == KappaLogWeights(World, idx, a[1], a[2])
                   IN  /\ o.status # "ok"
                       /\ o.w.disk[LogWeightsFile(idx)] = Partial

\* C15 as stated: in a matched set, two objects at the same distance from
\* the sightline are in the order they have in the catalog array.
C15_TiesInCatalogOrder ==
    X.status = "ok" =>
        \A i \in DOMAIN X.value :
            LET x == X.value[i]
            IN  \A j, k \in DOMAIN x :
                    (/\ j < k
                     /\ x[j] # x[k]
                     /\ Dist2(x[j], sightlines[i]) = Dist2(x[k], sightlines[i]))
                        => \E p, q \in DOMAIN arr :
                               p < q /\ arr[p] = x[j] /\ arr[q] = x[k]

(***************************************************************************)
(* exconvnet/des_data/fetcher.py: fetch.  arr is what download returned,   *)
(* X what process_X made of it (the matching of compute_X), Y the local    *)
(* variable that only gen_labels assigns.                                  *)
(***************************************************************************)
InitFetch ==
    /\ fetch \in [pc : {"start"}, gen_Y : BOOLEAN, dir : BOOLEAN,
                  Y_bound : {FALSE}, saved : {{}}, status : {"running"}]
    /\ arr \in SeqsUpTo(Objects, MaxCat)
    /\ sightlines \in {<<p>> : p \in Positions}
    /\ X = NotRun
    /\ Y = NotRun
    /\ mcmc = McmcIdle
    /\ rand = RandIdle
    /\ ManagerIdle

\* X = process_X(arr, sightlines, filter_obj)
FetchProcess ==
    /\ fetch.pc = "start"
    /\ \E out \in ComputeXOutcomes(arr, sightlines) :
           /\ X' = out
           /\ fetch' = IF out.status = "ok"
                       THEN [fetch EXCEPT !.pc = "processed"]
                       ELSE [fetch EXCEPT !.pc = "end", !.status = out.status]
    /\ UNCHANGED <<arr, sightlines, Y, imVars, mcmc, rand>>

\* if gen_Y: Y = gen_labels(X)
FetchLabels ==
    /\ fetch.pc = "processed"
    /\ IF fetch.gen_Y
       THEN /\ Y' = gen_labels(X.value)
            /\ fetch' = [fetch EXCEPT !.pc = "labelled", !.Y_bound = TRUE]
       ELSE /\ Y' = Y
            /\ fetch' = [fetch EXCEPT !.pc = "labelled"]
    /\ UNCHANGED <<arr, sightlines, X, imVars, mcmc, rand>>

\* if not(os.path.exists(save_path)): os.mkdir(save_path)
FetchMkdir ==
    /\ fetch.pc = "labelled"
    /\ fetch' = [fetch EXCEPT !.pc = "save_X", !.dir = TRUE]
    /\ UNCHANGED <<matchVars, imVars, mcmc, rand>>

\* np.save(os.path.join(save_path, x_fname), X)
FetchSaveX ==
    /\ fetch.pc = "save_X"
    /\ fetch' = [fetch EXCEPT !.pc = "save_Y", !.saved = @ \cup {"X"}]
    /\ UNCHANGED <<matchVars, imVars, mcmc, rand>>

\* np.save(os.path.join(save_path, y_fname), Y); return X, Y
\* reading a local variable that was never assigned raises UnboundLocalError
FetchSaveY ==
    /\ fetch.pc = "save_Y"
    /\ fetch' = IF fetch.Y_bound
                THEN [fetch EXCEPT !.pc = "end", !.saved = @ \cup {"Y"},
                                   !.status = "returned"]
                ELSE [fetch EXCEPT !.pc = "end",
                                   !.status = "UnboundLocalError"]
    /\ UNCHANGED <<matchVars, imVars, mcmc, rand>>

NextFetch ==
    \/ FetchProcess
    \/ FetchLabels
    \/ FetchMkdir
    \/ FetchSaveX
    \/ FetchSaveY

SpecFetch == InitFetch /\ [][NextFetch]_vars

\* C16 as stated: for every combination of arguments, gen_Y=False included,
\* a fetch that has computed X does not fail: it ends by returning (X, Y),
\* with save_path created and the dataset (X and Y) saved there.
C16_FetchReturns ==
    (fetch.pc = "end" /\ X.status = "ok") =>
        /\ fetch.status = "returned"
        /\ fetch.dir
        /\ fetch.saved = {"X", "Y"}

\* C17 as stated: the array get_log_p_k_given_omega_int produces keeps the
\* example axis for every number of examples >= 1 (its first axis has one
\* entry per example of k_bnn), so that get_kappa_log_weights can index row
\* idx of k_bnn and of log_p_k_given_omega_int for every example idx, a
\* validation set of a single example included.
C17_ExampleAxisKept ==
    \A a \in SampleArgs :
        /\ LET k_bnn == BnnKappa(World, a[1], a[2])
               log_p == LogP(k_bnn.w, a[1], a[2])
           IN  (k_bnn.status = "ok" /\ log_p.status = "ok" /\ ~log_p.hit) =>
                   /\ Len(log_p.value.shape) >= 2
                   /\ log_p.value.shape[1] = k_bnn.value.shape[1]
        /\ \A idx \in 0..MaxIdx :
               LET k_bnn == BnnKappa(World, a[1], a[2])
               IN  (k_bnn.status = "ok" /\ idx < k_bnn.value.shape[1]) =>
                       KappaLogWeights(World, idx, a[1], a[2]).status
                           # "IndexError"

\* C18 as stated: when reset_val_dataset(subsample_pdf_func, n_val)
\* returns, the validation dataset has exactly n_val examples, selected by
\* pairwise distinct indices into the original validation set, whether the
\* indices were drawn in this call or loaded from subsample_idx.npy.
C18_ResetGivesNVal ==
    \A n_val \in 1..MaxData :
        \A o \in SubsampleIdx(World, n_val) :
            o.status = "ok" =>
                LET idx == o.value.idx
                    subset == Subset(val_dataset, idx)
                IN  /\ Len(subset) = n_val
                    /\ \A i, j \in DOMAIN idx : i # j => idx[i] # idx[j]
                    /\ OOB \notin Range(subset)

\* file f is written in this step: a save of it completed or was interrupted
Written(f) == disk'[f] # disk[f] \/ computed'[f] # computed[f]

InDataFlowOrder ==
    /\ disk["log_p_k_given_omega_int.npy"] # Absent =>
           IsArray(disk["k_train.npy"]) /\ IsArray(disk["k_bnn.npy"])
    /\ \A idx \in 0..MaxIdx :
           disk[LogWeightsFile(idx)] # Absent =>
               /\ IsArray(disk["k_bnn.npy"])
               /\ IsArray(disk["log_p_k_given_omega_int.npy"])

WrittenInDataFlowOrder ==
    /\ Written("log_p_k_given_omega_int.npy") =>
           IsArray(disk'["k_train.npy"]) /\ IsArray(disk'["k_bnn.npy"])
    /\ \A idx \in 0..MaxIdx :
           Written(LogWeightsFile(idx)) =>
               /\ IsArray(disk'["k_bnn.npy"])
               /\ IsArray(disk'["log_p_k_given_omega_int.npy"])

\* C19: in every run from an empty out_dir, log_p_k_given_omega_int.npy is
\* written only when k_train.npy and k_bnn.npy are there, complete, and
\* log_weights_{idx}.npy only when k_bnn.npy and
\* log_p_k_given_omega_int.npy are; a file that is there has its inputs there.
C19_DataFlowOrder == [](InDataFlowOrder) /\ [][WrittenInDataFlowOrder]_vars

\* every artifact of the pipeline was written, log_weights_0.npy twice
C19_AllArtifactsWritten ==
    /\ \A f \in {"k_train.npy", "k_bnn.npy", "log_p_k_given_omega_int.npy",
                 LogWeightsFile(0)} : IsArray(disk[f])
    /\ computed[LogWeightsFile(0)] = MaxSaves

\* C20 as stated: on a cache miss, element [e, t, r*n_samples + s] of the
\* tensor get_bnn_kappa returns is the draw s of dropout repeat r for
\* example e of the validation dataset and target t, for all e, t, r, s.
C20_MergedAxes ==
    \A a \in SampleArgs :
        LET o == BnnKappa(World, a[1], a[2])
        IN  (o.status = "ok" /\ ~o.hit) =>
                \A e \in 0..(Len(val_dataset) - 1), t \in 0..(Y_dim - 1),
                   r \in 0..(a[2] - 1), s \in 0..(a[1] - 1) :
                    BnnElement(o.value, e, t, MergedIndex(r, s, a[1]), a[1])
                        = [example |-> val_dataset[e + 1], target |-> t,
                           repeat |-> r, sample |-> s]

\* the attributes load_dataset(is_train=True) is to leave on the manager;
\* each mean stands for the mean and the std, which are assigned together
TrainAttrs == {"X_mean", "Y_mean", "Y_local_mean", "transform_X",
               "transform_Y", "transform_Y_local", "class_weight"}

\* load_dataset(is_train=True) has run on this manager: its first
\* assignment of the training branch (X_mean) was made
TrainLoadCalled == "X_mean" \in attrs

\* C21 as stated: once load_dataset(is_train=True) has run on a manager,
\* whichever of sub_target and sub_target_local were given, the means and
\* stds of X, Y and Y_local, the three transforms and class_weight are all
\* set and the train loader is built, so no later read of them fails.
C21_TrainLoadSetsAll ==
    TrainLoadCalled =>
        /\ TrainAttrs \subseteq attrs
        /\ "train_loader" \in attrs
        /\ train_loader # NoLoader

====
